---- MODULE Spec2Model ----
(***************************************************************************)
(* Model of the server-push endpoint /stream/sse_monitor of demo_app.py:   *)
(* the async generator event_generator and the consumer that drives it.    *)
(*                                                                         *)
(* One session = one call of stream_sse_monitor = one event_generator      *)
(* object.  The generator is a coroutine: it runs only when its consumer   *)
(* asks for the next chunk, and it gives control back at every `yield`     *)
(* and at `await asyncio.sleep(2)`.  A cancellation of the serving task    *)
(* is raised as asyncio.CancelledError inside the generator only when the  *)
(* task is suspended inside the generator (the sleep); when the task is    *)
(* suspended in the consumer (the generator is parked at a `yield`) the    *)
(* generator is finalised with GeneratorExit, which the                    *)
(* `except asyncio.CancelledError` clause does not catch.                  *)
(*                                                                         *)
(* response[s] holds the responses the handler has returned for the        *)
(* request of session s; a response names the generator it streams.        *)
(*                                                                         *)
(* The timestamp (time.strftime) and the markup around the numbers are     *)
(* opaque and are left out of the chunks; the numbers are kept.            *)
(***************************************************************************)
EXTENDS Integers, Sequences, FiniteSets, TLC

VARIABLES pc, counter, out, cancel, wfail, slept, response

\* The page handlers (pagination_demo, index, async_loading, the content
\* endpoints) keep no state of their own: their part of the model is the
\* request being served, the reply to it (a sequence, empty while there is
\* none) and the document the client holds.
VARIABLES req, reply, dom

\* The variables of the streams and those of the page handlers.
sse == <<pc, counter, out, cancel, wfail, slept, response>>

browser == <<req, reply, dom>>

vars == <<pc, counter, out, cancel, wfail, slept, response, req, reply, dom>>

\* No request has been made.
NoRequest == "no request"

\* The concurrent connections that are modelled.
Sessions == {"s1", "s2"}

\* `while counter < 20`
MaxUpdates == 20

\* `min(counter * 5, 100)`
ProgressStep == 5
ProgressMax == 100

\* `await asyncio.sleep(2)`
SleepSeconds == 2

\* The local variable `counter` does not exist before the generator runs.
NoCounter == 0 - 1

\* `counter = 0`
InitCounter == 0

Min(a, b) == IF a < b THEN a ELSE b

\* Variants of the loop test: one iteration too many, one too few.
LoopCondInclusive(c) == c <= MaxUpdates

LoopCondShort(c) == c < MaxUpdates - 1

\* `while counter < 20:`
LoopCond(c) == c < MaxUpdates

\* Variant of the increment: a step of 2.
NextCounterSkip(c) == c + 2

\* `counter += 1`
NextCounter(c) == c + 1

\* Variant of the clamp: max in the place of min.
progress_value_max(c) ==
    IF c * ProgressStep > ProgressMax THEN c * ProgressStep ELSE ProgressMax

\* `progress_value = min(counter * 5, 100)`
progress_value(c) == Min(c * ProgressStep, ProgressMax)

(***************************************************************************)
(* Chunks: what one `yield` hands to the consumer.                         *)
(***************************************************************************)
\* f"event: update\n" and f"event: close\n"
EventLine(kind) == [line |-> "event", text |-> kind, seq |-> 0, progress |-> 0]

\* f"data: {str(update_content)}\n\n": "Update #{counter}", "({counter}/20 updates)",
\* Progress(value=str(progress_value)).
UpdateData(c) ==
    [line |-> "data", text |-> "Update", seq |-> c, progress |-> progress_value(c)]

\* f"data: {str(final_content)}\n\n": "Stream Complete", no counter, no progress.
FinalData == [line |-> "data", text |-> "Stream Complete", seq |-> 0, progress |-> 0]

\* f"data: Server shutting down\n\n"
CloseData == [line |-> "data", text |-> "Server shutting down", seq |-> 0, progress |-> 0]

\* The positions at which the generator is parked at a `yield`.
YieldPcs ==
    {"y_upd_event", "y_upd_data", "y_fin_event", "y_fin_data",
     "y_close_event", "y_close_data"}

Pcs == {"none", "created", "sleep", "done", "closed"} \cup YieldPcs

TypeOK ==
    /\ pc \in [Sessions -> Pcs]
    /\ counter \in [Sessions -> NoCounter .. (MaxUpdates + 1)]
    /\ cancel \in [Sessions -> {"no", "prestart", "sleep", "yield"}]
    /\ wfail \in [Sessions -> BOOLEAN]
    /\ slept \in [Sessions -> 0 .. (MaxUpdates + 1)]
    /\ \A s \in Sessions : Len(out[s]) <= 2 * (MaxUpdates + 2)
    /\ \A s \in Sessions : Len(response[s]) <= 1

\* Time session s has spent in completed sleeps.
Elapsed(s) == slept[s] * SleepSeconds

Init ==
    /\ pc = [s \in Sessions |-> "none"]
    /\ counter = [s \in Sessions |-> NoCounter]
    /\ out = [s \in Sessions |-> <<>>]
    /\ cancel = [s \in Sessions |-> "no"]
    /\ wfail = [s \in Sessions |-> FALSE]
    /\ slept = [s \in Sessions |-> 0]
    /\ response = [s \in Sessions |-> <<>>]
    /\ req = NoRequest
    /\ reply = <<>>
    /\ dom = <<>>

(***************************************************************************)
(* stream_sse_monitor(): builds the generator object and returns the       *)
(* StreamingResponse around it; no line of the generator has run yet.      *)
(***************************************************************************)
\* Variant of the response: StreamingResponse(event_generator()) with the
\* media type and the headers left to their defaults.
StreamingResponseDefault(gen) ==
    [media_type |-> "", headers |-> {}, body_iterator |-> gen]

\* StreamingResponse(event_generator(), media_type="text/event-stream",
\*                   headers={"Cache-Control": "no-cache", "Connection": "keep-alive"})
StreamingResponse(gen) ==
    [media_type |-> "text/event-stream",
     headers |-> {<<"Cache-Control", "no-cache">>, <<"Connection", "keep-alive">>},
     body_iterator |-> gen]

Connect(s) ==
    /\ pc[s] = "none"
    /\ pc' = [pc EXCEPT ![s] = "created"]
    /\ response' = [response EXCEPT ![s] = Append(@, StreamingResponse(s))]
    /\ UNCHANGED <<counter, out, cancel, wfail, slept>>
    /\ UNCHANGED browser

(***************************************************************************)
(* The head of the loop, entered with counter value c: either one more     *)
(* tick up to its first yield, or the loop is left and the final event's   *)
(* first chunk is yielded.                                                 *)
(***************************************************************************)
LoopHead(s, c) ==
    IF LoopCond(c)
    THEN /\ counter' = [counter EXCEPT ![s] = NextCounter(c)]
         /\ out' = [out EXCEPT ![s] = Append(@, EventLine("update"))]
         /\ pc' = [pc EXCEPT ![s] = "y_upd_event"]
    ELSE /\ counter' = [counter EXCEPT ![s] = c]
         /\ out' = [out EXCEPT ![s] = Append(@, EventLine("update"))]
         /\ pc' = [pc EXCEPT ![s] = "y_fin_event"]

\* First request for a chunk: `counter = 0`, then the loop head.
Start(s) ==
    /\ pc[s] = "created"
    /\ LoopHead(s, InitCounter)
    /\ UNCHANGED <<cancel, wfail, slept, response>>
    /\ UNCHANGED browser

\* Resumed after `yield f"event: update\n"`: the tick's data chunk is yielded.
SendUpdateData(s) ==
    /\ pc[s] = "y_upd_event"
    /\ out' = [out EXCEPT ![s] = Append(@, UpdateData(counter[s]))]
    /\ pc' = [pc EXCEPT ![s] = "y_upd_data"]
    /\ UNCHANGED <<counter, cancel, wfail, slept, response>>
    /\ UNCHANGED browser

\* Variant of the sleep: it is skipped after the last update.
EnterSleepSkipLast(s) ==
    /\ pc[s] = "y_upd_data"
    /\ IF counter[s] = MaxUpdates
       THEN LoopHead(s, counter[s]) /\ UNCHANGED <<cancel, wfail, slept, response>>
       ELSE /\ pc' = [pc EXCEPT ![s] = "sleep"]
            /\ UNCHANGED <<counter, out, cancel, wfail, slept, response>>
    /\ UNCHANGED browser

\* Resumed after the data chunk: `await asyncio.sleep(2)` suspends the task.
EnterSleep(s) ==
    /\ pc[s] = "y_upd_data"
    /\ pc' = [pc EXCEPT ![s] = "sleep"]
    /\ UNCHANGED <<counter, out, cancel, wfail, slept, response>>
    /\ UNCHANGED browser

\* Variant of the sleep's return: the counter is one variable shared by all
\* sessions, so the loop head sees the furthest counter of any session.
SleepReturnShared(s) ==
    /\ pc[s] = "sleep"
    /\ slept' = [slept EXCEPT ![s] = @ + 1]
    /\ LoopHead(s, CHOOSE m \in {counter[t] : t \in Sessions} :
                      \A t \in Sessions : counter[t] <= m)
    /\ UNCHANGED <<cancel, wfail, response>>
    /\ UNCHANGED browser

\* Variant of the sleep's return: the awaited timer never fires.
SleepReturnNever(s) ==
    /\ pc[s] = "sleep"
    /\ FALSE
    /\ UNCHANGED vars

\* The sleep returns; back to the loop head.
SleepReturn(s) ==
    /\ pc[s] = "sleep"
    /\ slept' = [slept EXCEPT ![s] = @ + 1]
    /\ LoopHead(s, counter[s])
    /\ UNCHANGED <<cancel, wfail, response>>
    /\ UNCHANGED browser

\* Resumed after the final event's first chunk.
SendFinalData(s) ==
    /\ pc[s] = "y_fin_event"
    /\ out' = [out EXCEPT ![s] = Append(@, FinalData)]
    /\ pc' = [pc EXCEPT ![s] = "y_fin_data"]
    /\ UNCHANGED <<counter, cancel, wfail, slept, response>>
    /\ UNCHANGED browser

\* Resumed after the final event's data chunk: the generator returns.
ReturnNormal(s) ==
    /\ pc[s] = "y_fin_data"
    /\ pc' = [pc EXCEPT ![s] = "done"]
    /\ UNCHANGED <<counter, out, cancel, wfail, slept, response>>
    /\ UNCHANGED browser

\* Variant of the cancellation at the sleep: no except clause, the
\* CancelledError leaves the generator and nothing is yielded.
CancelAtSleepUncaught(s) ==
    /\ pc[s] = "sleep"
    /\ cancel' = [cancel EXCEPT ![s] = "sleep"]
    /\ pc' = [pc EXCEPT ![s] = "closed"]
    /\ UNCHANGED <<counter, out, wfail, slept, response>>
    /\ UNCHANGED browser

\* Variant of the cancellation at the sleep: the except clause yields the
\* data line of the close event without its event line.
CancelAtSleepDataOnly(s) ==
    /\ pc[s] = "sleep"
    /\ cancel' = [cancel EXCEPT ![s] = "sleep"]
    /\ out' = [out EXCEPT ![s] = Append(@, CloseData)]
    /\ pc' = [pc EXCEPT ![s] = "y_close_data"]
    /\ UNCHANGED <<counter, wfail, slept, response>>
    /\ UNCHANGED browser

(***************************************************************************)
(* The task is cancelled while it is suspended in the sleep:               *)
(* CancelledError is raised at the await, caught by the except clause,     *)
(* and the close event's first chunk is yielded.                           *)
(***************************************************************************)
CancelAtSleep(s) ==
    /\ pc[s] = "sleep"
    /\ cancel' = [cancel EXCEPT ![s] = "sleep"]
    /\ out' = [out EXCEPT ![s] = Append(@, EventLine("close"))]
    /\ pc' = [pc EXCEPT ![s] = "y_close_event"]
    /\ UNCHANGED <<counter, wfail, slept, response>>
    /\ UNCHANGED browser

\* Resumed after `yield f"event: close\n"`.
SendCloseData(s) ==
    /\ pc[s] = "y_close_event"
    /\ out' = [out EXCEPT ![s] = Append(@, CloseData)]
    /\ pc' = [pc EXCEPT ![s] = "y_close_data"]
    /\ UNCHANGED <<counter, cancel, wfail, slept, response>>
    /\ UNCHANGED browser

\* Variant of the end of the except clause: the final event is placed after
\* the try statement, so it is sent after the close event as well.
ReturnAfterCloseFallsThrough(s) ==
    /\ pc[s] = "y_close_data"
    /\ out' = [out EXCEPT ![s] = Append(@, EventLine("update"))]
    /\ pc' = [pc EXCEPT ![s] = "y_fin_event"]
    /\ UNCHANGED <<counter, cancel, wfail, slept, response>>
    /\ UNCHANGED browser

\* Variant of the end of the except clause: the try statement is inside the
\* loop, so the loop goes on after the close event.
ReturnAfterCloseInLoop(s) ==
    /\ pc[s] = "y_close_data"
    /\ LoopHead(s, counter[s])
    /\ UNCHANGED <<cancel, wfail, slept, response>>
    /\ UNCHANGED browser

\* Variant of the end of the except clause: the CancelledError is raised
\* again after the close event, so the generator ends with an error.
ReturnAfterCloseReraise(s) ==
    /\ pc[s] = "y_close_data"
    /\ pc' = [pc EXCEPT ![s] = "raised"]
    /\ UNCHANGED <<counter, out, cancel, wfail, slept, response>>
    /\ UNCHANGED browser

\* Resumed after the close event's data chunk: the except clause ends, the
\* generator returns without re-raising.
ReturnAfterClose(s) ==
    /\ pc[s] = "y_close_data"
    /\ pc' = [pc EXCEPT ![s] = "done"]
    /\ UNCHANGED <<counter, out, cancel, wfail, slept, response>>
    /\ UNCHANGED browser

(***************************************************************************)
(* The generator is parked at a yield and is never resumed: the consumer   *)
(* was cancelled while writing (CancelAtYield) or its write raised         *)
(* (WriteFail).  The generator is finalised with GeneratorExit at the      *)
(* yield; the except clause does not match, nothing more is yielded.       *)
(***************************************************************************)
\* Variant of the cancellation at a yield: it is raised inside the generator
\* as CancelledError and the except clause answers it with the close event.
CancelAtYieldCaught(s) ==
    /\ pc[s] \in YieldPcs \ {"y_close_event", "y_close_data"}
    /\ cancel' = [cancel EXCEPT ![s] = IF @ = "no" THEN "yield" ELSE @]
    /\ out' = [out EXCEPT ![s] = Append(@, EventLine("close"))]
    /\ pc' = [pc EXCEPT ![s] = "y_close_event"]
    /\ UNCHANGED <<counter, wfail, slept, response>>
    /\ UNCHANGED browser

CancelAtYield(s) ==
    /\ pc[s] \in YieldPcs
    /\ cancel' = [cancel EXCEPT ![s] = IF @ = "no" THEN "yield" ELSE @]
    /\ pc' = [pc EXCEPT ![s] = "closed"]
    /\ UNCHANGED <<counter, out, wfail, slept, response>>
    /\ UNCHANGED browser

\* Variant of the failed write: the error is swallowed and the generator is
\* asked for its next chunk all the same.
WriteFailIgnored(s) ==
    /\ pc[s] \in YieldPcs
    /\ wfail' = [wfail EXCEPT ![s] = TRUE]
    /\ UNCHANGED <<pc, counter, out, cancel, slept, response>>
    /\ UNCHANGED browser

WriteFail(s) ==
    /\ pc[s] \in YieldPcs
    /\ wfail' = [wfail EXCEPT ![s] = TRUE]
    /\ pc' = [pc EXCEPT ![s] = "closed"]
    /\ UNCHANGED <<counter, out, cancel, slept, response>>
    /\ UNCHANGED browser

\* Variant of the cancellation before the start: the except clause answers
\* it with the close event.
CancelBeforeStartCaught(s) ==
    /\ pc[s] = "created"
    /\ cancel' = [cancel EXCEPT ![s] = "prestart"]
    /\ out' = [out EXCEPT ![s] = Append(@, EventLine("close"))]
    /\ pc' = [pc EXCEPT ![s] = "y_close_event"]
    /\ UNCHANGED <<counter, wfail, slept, response>>
    /\ UNCHANGED browser

\* The task is cancelled before the generator was asked for its first chunk:
\* no line of the generator ever runs.
CancelBeforeStart(s) ==
    /\ pc[s] = "created"
    /\ cancel' = [cancel EXCEPT ![s] = "prestart"]
    /\ pc' = [pc EXCEPT ![s] = "closed"]
    /\ UNCHANGED <<counter, out, wfail, slept, response>>
    /\ UNCHANGED browser

Next ==
    \E s \in Sessions :
        \/ Connect(s)
        \/ Start(s)
        \/ SendUpdateData(s)
        \/ EnterSleep(s)
        \/ SleepReturn(s)
        \/ SendFinalData(s)
        \/ ReturnNormal(s)
        \/ CancelAtSleep(s)
        \/ SendCloseData(s)
        \/ ReturnAfterClose(s)
        \/ CancelAtYield(s)
        \/ WriteFail(s)
        \/ CancelBeforeStart(s)

Spec == Init /\ [][Next]_vars

(***************************************************************************)
(* Reading a session's output.  An event is a pair of chunks: an event     *)
(* line and the data line after it.                                        *)
(***************************************************************************)
IsEventLine(ch, kind) == ch.line = "event" /\ ch.text = kind

IsUpdateData(ch) == ch.line = "data" /\ ch.text = "Update"

IsNumbered(ch, n) == IsUpdateData(ch) /\ ch.seq = n

IsCompletion(ch) == ch.line = "data" /\ ch.text = "Stream Complete"

IsCloseData(ch) == ch.line = "data" /\ ch.text = "Server shutting down"

\* The first 2k chunks of o are the numbered updates 1..k, in order.
UpdatesUpTo(o, k) ==
    /\ Len(o) >= 2 * k
    /\ \A i \in 1 .. k : IsEventLine(o[2 * i - 1], "update") /\ IsNumbered(o[2 * i], i)

\* 20 numbered updates followed by the completion event, and nothing else.
ShapeComplete(o) ==
    /\ Len(o) = 42
    /\ UpdatesUpTo(o, 20)
    /\ IsEventLine(o[41], "update")
    /\ IsCompletion(o[42])

\* k numbered updates followed by one close event, and nothing else.
ShapeClosed(o, k) ==
    /\ Len(o) = 2 * k + 2
    /\ UpdatesUpTo(o, k)
    /\ IsEventLine(o[2 * k + 1], "close")
    /\ IsCloseData(o[2 * k + 2])

\* o is the beginning of a sequence of shape ShapeComplete.
PrefixOfComplete(o) ==
    /\ Len(o) <= 42
    /\ \A i \in 1 .. Len(o) :
        IF i = 42 THEN IsCompletion(o[i])
        ELSE IF i % 2 = 1 THEN IsEventLine(o[i], "update")
        ELSE IsNumbered(o[i], i \div 2)

\* o is the beginning of a sequence of shape ShapeClosed(., k).
PrefixOfClosed(o, k) ==
    /\ Len(o) <= 2 * k + 2
    /\ \A i \in 1 .. Len(o) :
        IF i = 2 * k + 2 THEN IsCloseData(o[i])
        ELSE IF i = 2 * k + 1 THEN IsEventLine(o[i], "close")
        ELSE IF i % 2 = 1 THEN IsEventLine(o[i], "update")
        ELSE IsNumbered(o[i], i \div 2)

HasClose(o) == \E i \in 1 .. Len(o) : IsEventLine(o[i], "close") \/ IsCloseData(o[i])

\* The generator ran to its end (it returned; the consumer took every chunk).
Returned(s) == pc[s] = "done"

(***************************************************************************)
(* C1.  A stream that is not cancelled emits the numbered updates 1..20,   *)
(* in order, then the completion event, 21 events in all; it emits no      *)
(* close event, and once the completion event is out the counter stands    *)
(* at 20 (no further tick).  While such a stream is under way its output   *)
(* is a beginning of that sequence.                                        *)
(***************************************************************************)
C1_CompletedStream ==
    \A s \in Sessions :
        cancel[s] = "no" =>
            /\ PrefixOfComplete(out[s])
            /\ ~HasClose(out[s])
            /\ Returned(s) => (ShapeComplete(out[s]) /\ counter[s] = 20)
            /\ (Len(out[s]) >= 41) => counter[s] = 20

C1_Witness ==
    \E s \in Sessions : Returned(s) /\ cancel[s] = "no" /\ Len(out[s]) = 42

(***************************************************************************)
(* C2 (as claimed).  Every cancelled stream that has begun to emit ends    *)
(* with a close event, holds exactly one close event, and nothing follows  *)
(* it.  Refuted by a cancellation that lands while the generator is        *)
(* parked at a yield.                                                      *)
(***************************************************************************)
C2_CancelledEndsWithClose ==
    \A s \in Sessions :
        (cancel[s] # "no" /\ pc[s] \in {"done", "closed"} /\ Len(out[s]) > 0) =>
            /\ Len(out[s]) >= 2
            /\ IsEventLine(out[s][Len(out[s]) - 1], "close")
            /\ IsCloseData(out[s][Len(out[s])])
            /\ Cardinality({i \in 1 .. Len(out[s]) : IsEventLine(out[s][i], "close")}) = 1

(***************************************************************************)
(* C3 (as claimed).  The terminal event is a close event or the 20th       *)
(* update; a stream that ran to its end sent exactly one terminal event,   *)
(* and no chunk is ever sent after a terminal event.                       *)
(***************************************************************************)
C3_TerminalIs20thOrClose ==
    \A s \in Sessions :
        LET o == out[s]
            T == {i \in 1 .. Len(o) : IsCloseData(o[i]) \/ IsNumbered(o[i], 20)}
        IN  /\ \A i \in T : i = Len(o)
            /\ Returned(s) => Cardinality(T) = 1

(***************************************************************************)
(* C3 (amended).  The terminal event is a close event or the completion    *)
(* event that follows the 20th update.  A session sends at most one        *)
(* terminal event, exactly one if its generator ran to its end; nothing    *)
(* is sent after it (after the event line of a close only its data line);  *)
(* no session sends both the completion event and a close event.           *)
(***************************************************************************)
C3_OneTerminalEvent ==
    \A s \in Sessions :
        LET o == out[s]
            T == {i \in 1 .. Len(o) : IsCloseData(o[i]) \/ IsCompletion(o[i])}
        IN  /\ \A i \in T : i = Len(o)
            /\ \A i \in 1 .. Len(o) : IsEventLine(o[i], "close") => i >= Len(o) - 1
            /\ Cardinality(T) <= 1
            /\ Returned(s) => Cardinality(T) = 1
            /\ ~(HasClose(o) /\ \E i \in 1 .. Len(o) : IsCompletion(o[i]))

\* The 20th update and a close event in one stream that ran to its end.
C3_Witness ==
    \E s \in Sessions :
        /\ Returned(s)
        /\ HasClose(out[s])
        /\ \E i \in 1 .. Len(out[s]) : IsNumbered(out[s][i], 20)

(***************************************************************************)
(* C4 (as claimed).  A stream that ran to its end is 20 updates followed   *)
(* by the completion event, or strictly fewer than 20 updates followed by  *)
(* a close event.                                                          *)
(***************************************************************************)
C4_TwoShapesFewerThan20 ==
    \A s \in Sessions :
        Returned(s) =>
            \/ ShapeComplete(out[s])
            \/ \E k \in 0 .. 19 : ShapeClosed(out[s], k)

(***************************************************************************)
(* C4 (amended).  A stream that ran to its end is 20 updates followed by   *)
(* the completion event, or between 1 and 20 updates followed by a close   *)
(* event.  A stream whose generator was closed at a yield (its last chunk  *)
(* was never taken) is a beginning of one of those shapes.                 *)
(***************************************************************************)
C4_TwoShapesUpTo20 ==
    \A s \in Sessions :
        /\ Returned(s) =>
            \/ ShapeComplete(out[s])
            \/ \E k \in 1 .. 20 : ShapeClosed(out[s], k)
        /\ pc[s] = "closed" =>
            \/ PrefixOfComplete(out[s])
            \/ \E k \in 1 .. 20 : PrefixOfClosed(out[s], k)

C4_Witness ==
    \E s \in Sessions : Returned(s) /\ ShapeClosed(out[s], 20)

(***************************************************************************)
(* C5.  When the cancellation arrives during the sleep after the k-th      *)
(* update, k in 1..19, the output is the updates 1..k immediately          *)
(* followed by the close event: the close event line is out at once,       *)
(* nothing but the close data line "Server shutting down" follows, and     *)
(* a stream that ran to its end is exactly k updates and one close event.  *)
(***************************************************************************)
C5_CancelAfterKth ==
    \A s \in Sessions :
        (cancel[s] = "sleep" /\ counter[s] \in 1 .. 19) =>
            /\ Len(out[s]) >= 2 * counter[s] + 1
            /\ PrefixOfClosed(out[s], counter[s])
            /\ Returned(s) => ShapeClosed(out[s], counter[s])

C5_Witness ==
    \E s \in Sessions : cancel[s] = "sleep" /\ counter[s] = 7 /\ Returned(s)

(***************************************************************************)
(* C6.  Every numbered update carries a sequence number s in 1..20 and     *)
(* the progress min(5 s, 100); the update numbered 20 carries 100.         *)
(***************************************************************************)
C6_Progress ==
    \A s \in Sessions :
        \A i \in 1 .. Len(out[s]) :
            LET ch == out[s][i] IN
            IsUpdateData(ch) =>
                /\ ch.seq \in 1 .. 20
                /\ ch.progress = (IF 5 * ch.seq < 100 THEN 5 * ch.seq ELSE 100)
                /\ ch.seq = 20 => ch.progress = 100

C6_Witness ==
    \E s \in Sessions :
        \E i \in 1 .. Len(out[s]) : IsNumbered(out[s][i], 20) /\ out[s][i].progress = 100

(***************************************************************************)
(* The session's state in the terms of the specification's state machine.  *)
(* IDLE: no line of the generator has run.  STREAMING(n): inside the try   *)
(* body with counter n, the final event included (n = 20).  COMPLETE: the  *)
(* generator returned from the try body.  CANCELLED: the except clause     *)
(* was entered, or the generator was closed at a yield.                    *)
(***************************************************************************)
SessionState(p, c, cn) ==
    IF c = NoCounter THEN <<"IDLE", 0>>
    ELSE IF p \in {"y_upd_event", "y_upd_data", "sleep", "y_fin_event", "y_fin_data"}
         THEN <<"STREAMING", c>>
    ELSE IF p = "done" /\ cn = "no" THEN <<"COMPLETE", 0>>
    ELSE <<"CANCELLED", 0>>

AllowedTransition(a, b) ==
    \/ a = <<"IDLE", 0>> /\ b = <<"STREAMING", 1>>
    \/ \E n \in 1 .. 19 : a = <<"STREAMING", n>> /\ b = <<"STREAMING", n + 1>>
    \/ a = <<"STREAMING", 20>> /\ b = <<"COMPLETE", 0>>
    \/ \E n \in 1 .. 20 : a = <<"STREAMING", n>> /\ b = <<"CANCELLED", 0>>

(***************************************************************************)
(* C7.  Every step of a session either leaves its state unchanged or is    *)
(* one of IDLE -> STREAMING(1), STREAMING(n) -> STREAMING(n+1) for n < 20, *)
(* STREAMING(20) -> COMPLETE, STREAMING(n) -> CANCELLED; so COMPLETE and   *)
(* CANCELLED are never left.                                               *)
(***************************************************************************)
C7_StateMachine ==
    [][\A s \in Sessions :
         LET a == SessionState(pc[s], counter[s], cancel[s])
             b == SessionState(pc'[s], counter'[s], cancel'[s])
         IN  a = b \/ AllowedTransition(a, b)]_vars

C7_Witness ==
    \E s, t \in Sessions :
        /\ SessionState(pc[s], counter[s], cancel[s]) = <<"COMPLETE", 0>>
        /\ SessionState(pc[t], counter[t], cancel[t]) = <<"CANCELLED", 0>>
        /\ counter[t] = 7

\* The numbered-update data chunks of o, in the order of emission.
UpdateSeq(o) == SelectSeq(o, IsUpdateData)

(***************************************************************************)
(* C8.  The counter starts at 0 and is only ever increased by 1 (its       *)
(* first visible value is 1), it never exceeds 20, and the numbered        *)
(* updates emitted so far carry exactly the numbers 1..k, in order, with   *)
(* k <= 20 and k the counter or, while a tick's data line is pending, one  *)
(* less.                                                                   *)
(***************************************************************************)
C8_CounterAndSequence ==
    /\ [](\A s \in Sessions :
            LET u == UpdateSeq(out[s]) IN
            /\ counter[s] = NoCounter \/ counter[s] \in 1 .. 20
            /\ Len(u) <= 20
            /\ \A j \in 1 .. Len(u) : u[j].seq = j
            /\ counter[s] # NoCounter => Len(u) \in {counter[s] - 1, counter[s]}
            /\ counter[s] = NoCounter => Len(u) = 0)
    /\ [][\A s \in Sessions :
            counter'[s] # counter[s] =>
                counter'[s] = (IF counter[s] = NoCounter THEN 0 ELSE counter[s]) + 1]_vars

C8_Witness ==
    \E s \in Sessions : counter[s] = 20 /\ Len(UpdateSeq(out[s])) = 20 /\ pc[s] = "sleep"

\* Everything the model holds about session s.
SessionVars(s) ==
    <<pc[s], counter[s], out[s], cancel[s], wfail[s], slept[s], response[s]>>

\* The ticks session s has begun, read off its own output.
TicksBegun(o) ==
    Cardinality({i \in 1 .. Len(o) : i <= 40 /\ IsEventLine(o[i], "update")})

(***************************************************************************)
(* C9.  Sessions do not interact.  A step changes one session only (so     *)
(* cancelling or completing one leaves every other one as it was); each    *)
(* session's counter is the number of ticks that session itself has        *)
(* begun; and each session's output is a beginning of an output a lone     *)
(* session emits, numbered from 1, whatever the other sessions do.         *)
(***************************************************************************)
C9_SessionsIndependent ==
    /\ [](\A s \in Sessions :
            /\ counter[s] = (IF pc[s] \in {"none", "created"} \/ Len(out[s]) = 0
                             THEN NoCounter ELSE TicksBegun(out[s]))
            /\ slept[s] \in {TicksBegun(out[s]) - 1, TicksBegun(out[s])} \/ Len(out[s]) = 0
            /\ \/ PrefixOfComplete(out[s])
               \/ \E k \in 1 .. 20 : PrefixOfClosed(out[s], k))
    /\ [][\A s, t \in Sessions :
            (s # t /\ SessionVars(s)' # SessionVars(s)) => SessionVars(t)' = SessionVars(t)]_vars

\* Two sessions under way at once, at different ticks, one of them cancelled.
C9_Witness ==
    \E s, t \in Sessions :
        /\ s # t
        /\ pc[s] = "sleep" /\ counter[s] = 3
        /\ pc[t] = "done" /\ cancel[t] = "sleep" /\ counter[t] = 12

(***************************************************************************)
(* Fairness: the consumer keeps asking a live generator for its next       *)
(* chunk, and a sleep that is not cancelled returns.                       *)
(***************************************************************************)
Resume(s) ==
    \/ Start(s)
    \/ SendUpdateData(s)
    \/ EnterSleep(s)
    \/ SendFinalData(s)
    \/ ReturnNormal(s)
    \/ SendCloseData(s)
    \/ ReturnAfterClose(s)

FairSpec ==
    /\ Init
    /\ [][Next]_vars
    /\ \A s \in Sessions : WF_vars(Resume(s)) /\ WF_vars(SleepReturn(s))

(***************************************************************************)
(* C10.  Under that fairness every session that was set up ends: its       *)
(* generator returns (COMPLETE, or CANCELLED after the close event) or is  *)
(* closed (CANCELLED).                                                     *)
(***************************************************************************)
C10_Terminates ==
    \A s \in Sessions : (pc[s] = "created") ~> (pc[s] \in {"done", "closed"})

C10_Witness ==
    \E s \in Sessions : pc[s] = "done" /\ slept[s] = 20 /\ cancel[s] = "no"

\* Session s has ended: its generator returned or was closed.
Ended(s) == pc[s] \in {"done", "closed"}

\* The positions of the close event lines in o.
CloseLines(o) == {i \in 1 .. Len(o) : IsEventLine(o[i], "close")}

(***************************************************************************)
(* C11.  A cancellation signalled while the session is suspended in a      *)
(* tick's sleep is caught: the very step that takes it yields the close    *)
(* event line as the next chunk, nothing but the close data line is ever   *)
(* emitted after that line (no update), and the generator does not stay    *)
(* suspended: it returns, or is closed if its consumer stops reading.      *)
(***************************************************************************)
C11_CancelAtSleepCaught ==
    /\ [][\A s \in Sessions :
            (pc[s] = "sleep" /\ cancel'[s] # cancel[s]) =>
                /\ out'[s] = Append(out[s], EventLine("close"))
                /\ pc'[s] = "y_close_event"]_vars
    /\ [](\A s \in Sessions :
            \A i \in CloseLines(out[s]) :
                \A j \in (i + 1) .. Len(out[s]) : j = i + 1 /\ IsCloseData(out[s][j]))
    /\ \A s \in Sessions : (cancel[s] = "sleep") ~> Ended(s)

\* Cancelled in the sleep after the 20th update, close sent, generator returned.
C11_Witness ==
    \E s \in Sessions :
        cancel[s] = "sleep" /\ counter[s] = 20 /\ pc[s] = "done" /\ slept[s] = 19

(***************************************************************************)
(* C12.  The cancellation is handled inside the generator.  A stream       *)
(* cancelled at the sleep holds exactly one close event line (the close    *)
(* is attempted once); after the close data line the generator ends by     *)
(* returning, or by being closed by its consumer: no error leaves it; if   *)
(* the write of a close chunk fails it is closed with nothing more         *)
(* emitted;                                                                *)
(* and a session that has ended never changes again (no retry, no          *)
(* resumption).                                                            *)
(***************************************************************************)
C12_CancellationHandledLocally ==
    /\ [](\A s \in Sessions :
            /\ cancel[s] = "sleep" => Cardinality(CloseLines(out[s])) = 1
            /\ cancel[s] # "sleep" => CloseLines(out[s]) = {})
    /\ [][\A s \in Sessions :
            /\ (pc[s] = "y_close_event" /\ pc'[s] # pc[s])
                => \/ pc'[s] = "y_close_data" /\ out'[s] = Append(out[s], CloseData)
                   \/ pc'[s] = "closed" /\ out'[s] = out[s]
            /\ (pc[s] = "y_close_data" /\ pc'[s] # pc[s])
                => (pc'[s] \in {"done", "closed"} /\ out'[s] = out[s])
            /\ (pc[s] \in {"y_close_event", "y_close_data"} /\ wfail'[s] # wfail[s])
                => (pc'[s] = "closed" /\ out'[s] = out[s])
            /\ Ended(s) => SessionVars(s)' = SessionVars(s)]_vars

\* The write of the close event line failed: the stream ends on that line.
C12_Witness ==
    \E s \in Sessions :
        /\ cancel[s] = "sleep" /\ wfail[s] /\ pc[s] = "closed"
        /\ IsEventLine(out[s][Len(out[s])], "close")

(***************************************************************************)
(* C13.  After a failed write the session is over: the generator is        *)
(* closed, and from then on its counter, its output and its position       *)
(* never change (no further tick, no completion event, no retry).          *)
(***************************************************************************)
C13_WriteFailureStopsTicking ==
    /\ [](\A s \in Sessions : wfail[s] => pc[s] = "closed")
    /\ [][\A s \in Sessions :
            /\ wfail[s] => SessionVars(s)' = SessionVars(s)
            /\ wfail'[s] # wfail[s] =>
                (counter'[s] = counter[s] /\ out'[s] = out[s] /\ slept'[s] = slept[s])]_vars

C13_Witness ==
    \E s \in Sessions : wfail[s] /\ counter[s] = 5 /\ Len(out[s]) = 10 /\ cancel[s] = "no"

LastChunk(o) == o[Len(o)]

\* The event line of the completion event (the 21st "update" line) is out.
FinalBegun(o) == Len(o) >= 41 /\ IsEventLine(o[41], "update")

(***************************************************************************)
(* C15.  Emission first, then sleep, in strict alternation: the data line  *)
(* of update n is yielded when exactly n-1 sleeps have completed, every    *)
(* completed sleep is followed at once by the next event line, the         *)
(* completion event is yielded when exactly 20 sleeps of 2 time units      *)
(* have completed (40 time units), and no session ever sleeps longer.      *)
(***************************************************************************)
C15_TicksAndSleepsAlternate ==
    /\ [](\A s \in Sessions :
            /\ Elapsed(s) <= 40
            /\ (counter[s] # NoCounter /\ ~FinalBegun(out[s])) => slept[s] = counter[s] - 1
            /\ FinalBegun(out[s]) => (slept[s] = 20 /\ Elapsed(s) = 40))
    /\ [][\A s \in Sessions :
            /\ (out'[s] # out[s] /\ IsUpdateData(LastChunk(out'[s])))
                => slept'[s] = LastChunk(out'[s]).seq - 1
            /\ (out'[s] # out[s] /\ IsCompletion(LastChunk(out'[s])))
                => (slept'[s] = 20 /\ Elapsed(s)' = 40)
            /\ slept'[s] # slept[s] =>
                /\ slept'[s] = slept[s] + 1
                /\ pc[s] = "sleep"
                /\ Len(out'[s]) = Len(out[s]) + 1
                /\ IsEventLine(LastChunk(out'[s]), "update")
            /\ (pc'[s] = "sleep" /\ pc[s] # "sleep") =>
                (IsUpdateData(LastChunk(out[s])) /\ LastChunk(out[s]).seq = slept[s] + 1)]_vars

C15_Witness ==
    \E s \in Sessions : Returned(s) /\ cancel[s] = "no" /\ Elapsed(s) = 40

\* The positions at which the generator is parked after an event line.
EventYieldPcs == {"y_upd_event", "y_fin_event", "y_close_event"}

\* Chunk d is a data line that belongs to the event line e.
DataOf(e, d) ==
    /\ d.line = "data"
    /\ IsEventLine(e, "update") => (IsUpdateData(d) \/ IsCompletion(d))
    /\ IsEventLine(e, "close") => IsCloseData(d)

\* In o, event lines and data lines alternate, event line first, every
\* event line of kind update or close, every data line that of the event
\* line directly before it.
Alternates(o) ==
    \A i \in 1 .. Len(o) :
        IF i % 2 = 1
        THEN o[i].line = "event" /\ o[i].text \in {"update", "close"}
        ELSE DataOf(o[i - 1], o[i])

(***************************************************************************)
(* C16 (as claimed).  Event lines and data lines alternate, and no event   *)
(* line stays without its data line: a stream that has ended holds only    *)
(* whole events.                                                           *)
(***************************************************************************)
C16_NoEventLineWithoutData ==
    \A s \in Sessions :
        /\ Alternates(out[s])
        /\ Ended(s) => Len(out[s]) % 2 = 0

(***************************************************************************)
(* C16 (amended).  Event lines and data lines alternate, event line        *)
(* first, kinds update and close only, no data line without its event      *)
(* line directly before it.  An event line is the last chunk only while    *)
(* the generator is parked right after it or when the generator was        *)
(* closed there; resumed from there the generator yields that event's      *)
(* data line as the next chunk; a stream that ran to its end holds only    *)
(* whole events.                                                           *)
(***************************************************************************)
C16_Framing ==
    /\ [](\A s \in Sessions :
            /\ Alternates(out[s])
            /\ Len(out[s]) % 2 = 1 => pc[s] \in EventYieldPcs \cup {"closed"}
            /\ pc[s] \in EventYieldPcs => Len(out[s]) % 2 = 1
            /\ Returned(s) => Len(out[s]) % 2 = 0)
    /\ [][\A s \in Sessions :
            (pc[s] \in EventYieldPcs /\ pc'[s] \notin {pc[s], "closed"}) =>
                /\ Len(out'[s]) = Len(out[s]) + 1
                /\ SubSeq(out'[s], 1, Len(out[s])) = out[s]
                /\ DataOf(LastChunk(out[s]), LastChunk(out'[s]))]_vars

\* The write of the completion event's event line failed: it stays alone.
C16_Witness ==
    \E s \in Sessions :
        pc[s] = "closed" /\ wfail[s] /\ Len(out[s]) = 41 /\ IsEventLine(out[s][41], "update")

(***************************************************************************)
(* C17.  A request is answered by exactly one response, and that response  *)
(* is a streaming response with media type text/event-stream, exactly the  *)
(* headers Cache-Control: no-cache and Connection: keep-alive, and the     *)
(* session's own generator as its body; when the response is returned the  *)
(* generator is fresh (no line run, nothing emitted), and the response     *)
(* never changes afterwards.                                               *)
(***************************************************************************)
C17_OneStreamingResponse ==
    /\ [](\A s \in Sessions :
            /\ pc[s] = "none" => response[s] = <<>>
            /\ pc[s] # "none" =>
                /\ Len(response[s]) = 1
                /\ response[s][1].media_type = "text/event-stream"
                /\ response[s][1].headers =
                       {<<"Cache-Control", "no-cache">>, <<"Connection", "keep-alive">>}
                /\ response[s][1].body_iterator = s)
    /\ [][\A s \in Sessions :
            response'[s] # response[s] =>
                /\ response[s] = <<>>
                /\ pc'[s] = "created"
                /\ counter'[s] = NoCounter
                /\ out'[s] = <<>>]_vars

\* A response whose body has been streamed to its end.
C17_Witness ==
    \E s \in Sessions :
        Len(response[s]) = 1 /\ response[s][1].body_iterator = s /\ Len(out[s]) = 42

HasCompletion(o) == \E i \in 1 .. Len(o) : IsCompletion(o[i])

(***************************************************************************)
(* C18 (as claimed).  A stream that has begun and ended holds the          *)
(* completion event if and only if none of its sleeps was cancelled.       *)
(***************************************************************************)
C18_CompletionIffNoSleepCancelledEver ==
    \A s \in Sessions :
        (Ended(s) /\ Len(out[s]) > 0) =>
            (HasCompletion(out[s]) <=> cancel[s] # "sleep")

(***************************************************************************)
(* C18 (amended).  The completion event is out only if all 20 sleeps completed and   *)
(* none was cancelled; a stream cancelled in a sleep, the sleep after the  *)
(* 20th update included, holds a close event line in the place where the   *)
(* completion event would begin and never the completion event; a stream   *)
(* that ran to its end holds the completion event if and only if no sleep  *)
(* was cancelled; no stream holds both; and once the completion event has  *)
(* begun, nothing but its own data line is ever emitted, whatever          *)
(* cancellation comes later.                                               *)
(***************************************************************************)
C18_CompletionIffNoSleepCancelled ==
    /\ [](\A s \in Sessions :
            /\ HasCompletion(out[s]) =>
                (slept[s] = 20 /\ cancel[s] # "sleep" /\ ~HasClose(out[s]))
            /\ cancel[s] = "sleep" =>
                /\ ~HasCompletion(out[s])
                /\ ~FinalBegun(out[s])
                /\ IsEventLine(out[s][2 * counter[s] + 1], "close")
            /\ Returned(s) => (HasCompletion(out[s]) <=> cancel[s] # "sleep"))
    /\ [][\A s \in Sessions :
            /\ HasCompletion(out[s]) => out'[s] = out[s]
            /\ (FinalBegun(out[s]) /\ out'[s] # out[s]) =>
                out'[s] = Append(out[s], FinalData)]_vars

\* Cancelled after the completion event: the cancellation emitted nothing.
C18_Witness ==
    \E s \in Sessions :
        HasCompletion(out[s]) /\ cancel[s] = "yield" /\ pc[s] = "closed" /\ Len(out[s]) = 42

(***************************************************************************)
(* C19.  A close event is never the first event: an output that holds a    *)
(* close chunk begins with the event line and the data line of update 1;   *)
(* a session cancelled before its generator started has emitted nothing,   *)
(* is closed, and never had a counter.                                     *)
(***************************************************************************)
C19_CloseNeverFirst ==
    \A s \in Sessions :
        /\ HasClose(out[s]) =>
            /\ Len(out[s]) >= 3
            /\ IsEventLine(out[s][1], "update")
            /\ IsNumbered(out[s][2], 1)
        /\ cancel[s] = "prestart" =>
            (out[s] = <<>> /\ pc[s] = "closed" /\ counter[s] = NoCounter)

\* One session cancelled before its first tick, another cancelled in its
\* first sleep.
C19_Witness ==
    \E s, t \in Sessions :
        /\ cancel[s] = "prestart" /\ out[s] = <<>>
        /\ cancel[t] = "sleep" /\ counter[t] = 1 /\ Len(out[t]) = 4

(***************************************************************************)
(* C20.  The clamp never binds: every numbered update carries exactly      *)
(* progress = 5 * sequence, a value of {5, 10, .., 100}; from one update   *)
(* to the next progress grows by exactly 5; and progress is 100 at         *)
(* sequence 20 and nowhere else.                                           *)
(***************************************************************************)
C20_ClampNeverBinds ==
    \A s \in Sessions :
        LET u == UpdateSeq(out[s]) IN
        /\ \A j \in 1 .. Len(u) :
            /\ u[j].progress = 5 * u[j].seq
            /\ u[j].progress \in {5 * n : n \in 1 .. 20}
            /\ u[j].progress = 100 <=> u[j].seq = 20
        /\ \A j \in 1 .. (Len(u) - 1) : u[j + 1].progress = u[j].progress + 5

C20_Witness ==
    \E s \in Sessions :
        LET u == UpdateSeq(out[s]) IN
        Len(u) = 20 /\ u[19].progress = 95 /\ u[20].progress = 100

(***************************************************************************)
(* The page handlers.  pagination_demo (demo_app.py) and index             *)
(* (demo/pagination_demo.py) both serve the path /pagination_demo, each in *)
(* its own application; async_loading and modal_dialogs (demo_app.py)      *)
(* serve the pages that hold the AsyncLoadingContainers, whose content     *)
(* endpoints follow them.  A reply is the element tree the handler         *)
(* returns, reduced to the ids, the numbers and the links in it.           *)
(***************************************************************************)
\* The page numbers a request of the model names: PagesBelow of them below
\* page 1, and the pages up to MaxPage.
PagesBelow == 2

MaxPage == 12

Pages == (1 - PagesBelow) .. MaxPage

\* Python's None: the default of `example`, the result of headers.get for
\* a header the request does not carry.
None == "None"

\* The values of the query parameter `example`: absent, empty, the three
\* examples, and a value that names no example.
Examples == {None, "", "1", "2", "3", "4"}

\* The request carries no HX-Request header, the header htmx sends, or the
\* header with an empty value.
HeaderSets == {{}, {<<"HX-Request", "true">>}, {<<"HX-Request", "">>}}

\* `request.headers.get(name)`
get(headers, name) ==
    IF \E h \in headers : h[1] = name
    THEN (CHOOSE h \in headers : h[1] = name)[2]
    ELSE None

\* The truth value Python gives a header value in `... and headers.get(..)`.
Truthy(v) == v # None /\ v # ""

\* An element built without an id keyword.
NoId == ""

\* `total_items = 100`
total_items == 100

\* `items_per_page = 10`
items_per_page == 10

\* `total_pages = (total_items + items_per_page - 1) // items_per_page`
total_pages == (total_items + items_per_page - 1) \div items_per_page

\* Variant of the first index: the page number is taken as zero based.
start_idx_zero_based(page) == page * items_per_page

\* `start_idx = (page - 1) * items_per_page`
start_idx(page) == (page - 1) * items_per_page

\* `end_idx = min(start_idx + items_per_page, total_items)`
end_idx(page) == Min(start_idx(page) + items_per_page, total_items)

\* Python's list(range(a, b)): a, a+1, .., b-1, and empty when b <= a.
range(a, b) == [i \in 1 .. (b - a) |-> a + i - 1]

\* `current_items = list(range(start_idx + 1, end_idx + 1))`
current_items(page) == range(start_idx(page) + 1, end_idx(page) + 1)

\* `f"/pagination_demo?page={p}&example=1"`, kept as its path and its two
\* query parameters; a function of the page number.
make_route_ex1 ==
    [p \in Int |-> [path |-> "/pagination_demo", page |-> p, example |-> "1"]]

make_route_ex2 ==
    [p \in Int |-> [path |-> "/pagination_demo", page |-> p, example |-> "2"]]

make_route_ex3 ==
    [p \in Int |-> [path |-> "/pagination_demo", page |-> p, example |-> "3"]]

(***************************************************************************)
(* PaginationControls(current_page, total_pages, route_func, target_id):   *)
(* a Previous and a Next button; each asks for route_func of its page with *)
(* an HX-Request and puts the reply in the place of the element whose id   *)
(* is target_id; Previous is disabled on the first page and Next on the    *)
(* last one.                                                               *)
(***************************************************************************)
PaginationControls(current_page, pages, route_func, target_id) ==
    [prev |-> [disabled |-> current_page <= 1,
               hx_get |-> route_func[current_page - 1]],
     next |-> [disabled |-> current_page >= pages,
               hx_get |-> route_func[current_page + 1]],
     target_id |-> target_id,
     hx_swap |-> "outerHTML"]

\* The container of example 1: the header "Showing items a-b of 100", one
\* card per item of the page, and the controls.
pagination_content_1(page) ==
    [id |-> "pagination-content-1",
     title |-> "Item List",
     showing |-> <<start_idx(page) + 1, end_idx(page)>>,
     items |-> current_items(page),
     page |-> page,
     total_pages |-> total_pages,
     controls |-> PaginationControls(page, total_pages, make_route_ex1,
                                     "pagination-content-1")]

\* Variant of the container of example 2: its controls aim at the container
\* of example 1.
pagination_content_2_aims_at_1(page) ==
    [id |-> "pagination-content-2",
     title |-> "Results List",
     items |-> range(1, 6),
     page |-> page,
     controls |-> PaginationControls(page, total_pages, make_route_ex2,
                                     "pagination-content-1")]

\* The container of example 2: "Result item i (Page {page})" for i in
\* range(1, 6), and the compact controls.
pagination_content_2(page) ==
    [id |-> "pagination-content-2",
     title |-> "Results List",
     items |-> range(1, 6),
     page |-> page,
     controls |-> PaginationControls(page, total_pages, make_route_ex2,
                                     "pagination-content-2")]

\* The container of example 3: "... (Page {page})" and the custom controls.
pagination_content_3(page) ==
    [id |-> "pagination-content-3",
     title |-> "Search Results",
     items |-> <<>>,
     page |-> page,
     controls |-> PaginationControls(page, total_pages, make_route_ex3,
                                     "pagination-content-3")]

\* pagination_content(): the full demo page, the three containers in it.
pagination_content(page) ==
    [id |-> NoId,
     title |-> "Pagination Controls Pattern",
     children |-> <<pagination_content_1(page), pagination_content_2(page),
                    pagination_content_3(page)>>]

\* handle_htmx_request(request, content_fn, wrap_fn=...): the content, put
\* into the site layout unless htmx asked for it.
handle_htmx_request(request, content) ==
    [id |-> NoId,
     layout |-> ~Truthy(get(request.headers, "HX-Request")),
     content |-> content]

\* pagination_demo of demo_app.py: `if example == "1": ... elif ...`.
pagination_demo(request, page, example) ==
    IF example = "1" THEN pagination_content_1(page)
    ELSE IF example = "2" THEN pagination_content_2(page)
    ELSE IF example = "3" THEN pagination_content_3(page)
    ELSE handle_htmx_request(request, pagination_content(page))

\* Variant of index: the HX-Request header is not looked at.
index_ignores_header(request, page, example) ==
    IF example = "1" THEN pagination_content_1(page)
    ELSE IF example = "2" THEN pagination_content_2(page)
    ELSE IF example = "3" THEN pagination_content_3(page)
    ELSE handle_htmx_request(request, pagination_content(page))

\* index of demo/pagination_demo.py:
\* `if example == "1" and request.headers.get('HX-Request'): ... elif ...`.
index(request, page, example) ==
    IF example = "1" /\ Truthy(get(request.headers, "HX-Request"))
    THEN pagination_content_1(page)
    ELSE IF example = "2" /\ Truthy(get(request.headers, "HX-Request"))
    THEN pagination_content_2(page)
    ELSE IF example = "3" /\ Truthy(get(request.headers, "HX-Request"))
    THEN pagination_content_3(page)
    ELSE handle_htmx_request(request, pagination_content(page))

(***************************************************************************)
(* AsyncLoadingContainer(container_id, load_url, swap=...): an element     *)
(* with the id container_id holding a loading indicator; once in the       *)
(* document it asks for load_url and swaps the reply in, in the place of   *)
(* the container itself (the default) or of its content (innerHTML).       *)
(***************************************************************************)
DefaultSwap == "outerHTML"

LoadingIndicator == [id |-> NoId, title |-> "loading"]

AsyncLoadingContainer(container_id, load_url, swap) ==
    [id |-> container_id,
     hx_get |-> load_url,
     hx_trigger |-> "load",
     hx_swap |-> swap,
     content |-> <<LoadingIndicator>>]

\* async_content(): the five containers of the async loading page.
async_content ==
    [id |-> NoId,
     title |-> "Async Loading Container Pattern",
     children |->
        <<AsyncLoadingContainer("spinner-demo", "/async_loading/content/spinner",
                                DefaultSwap),
          AsyncLoadingContainer("dots-demo", "/async_loading/content/dots",
                                DefaultSwap),
          AsyncLoadingContainer("ring-demo", "/async_loading/content/ring",
                                DefaultSwap),
          AsyncLoadingContainer("ball-demo", "/async_loading/content/ball",
                                DefaultSwap),
          AsyncLoadingContainer("inner-swap-demo", "/async_loading/content/inner",
                                "innerHTML")>>]

async_loading(request) == handle_htmx_request(request, async_content)

\* modal_content(): of its modals, the one that loads its content.
modal_content ==
    [id |-> NoId,
     title |-> "Modal Dialog Pattern",
     children |->
        <<AsyncLoadingContainer("settings-form", "/modal_dialogs/content/settings",
                                DefaultSwap)>>]

modal_dialogs(request) == handle_htmx_request(request, modal_content)

\* The content endpoints: the Div each returns, its id and its heading.
async_content_spinner == [id |-> "spinner-demo", title |-> "Content Loaded!"]

async_content_dots == [id |-> "dots-demo", title |-> "Dots loader"]

\* Variant of the ring endpoint: the id keyword is left out.
async_content_ring_no_id == [id |-> NoId, title |-> "Ring loader"]

async_content_ring == [id |-> "ring-demo", title |-> "Ring loader"]

async_content_ball == [id |-> "ball-demo", title |-> "Ball loader"]

\* "Note: No ID needed since we're swapping innerHTML"
async_content_inner == [id |-> NoId, title |-> "Inner Content"]

modal_content_settings == [id |-> "settings-form", title |-> "Settings Configuration"]

\* The applications and the paths they route.
PagePaths == {"/async_loading", "/modal_dialogs"}

Requests ==
    [app : {"demo_app", "demo"}, path : {"/pagination_demo"}, page : Pages,
     example : Examples, headers : HeaderSets]
    \cup
    [app : {"demo_app"}, path : PagePaths, page : {1}, example : {None},
     headers : HeaderSets]

\* The route table: the handler that serves request r, applied to it.
Handle(r) ==
    CASE r.path = "/pagination_demo" /\ r.app = "demo_app" ->
            pagination_demo(r, r.page, r.example)
      [] r.path = "/pagination_demo" /\ r.app = "demo" ->
            index(r, r.page, r.example)
      [] r.path = "/async_loading" -> async_loading(r)
      [] r.path = "/modal_dialogs" -> modal_dialogs(r)
      [] r.path = "/async_loading/content/spinner" -> async_content_spinner
      [] r.path = "/async_loading/content/dots" -> async_content_dots
      [] r.path = "/async_loading/content/ring" -> async_content_ring
      [] r.path = "/async_loading/content/ball" -> async_content_ball
      [] r.path = "/async_loading/content/inner" -> async_content_inner
      [] r.path = "/modal_dialogs/content/settings" -> modal_content_settings

\* The elements a reply puts into the document: the containers of a page,
\* or the one element of a fragment.
Elements(r) == IF "content" \in DOMAIN r THEN r.content.children ELSE <<r>>

\* htmx swaps element el in at the first element of document d whose id is
\* target: in its place (outerHTML) or as its content (innerHTML).  With no
\* such element nothing is swapped.
Swap(d, target, swap, el) ==
    IF \E i \in 1 .. Len(d) : d[i].id = target
    THEN LET i == CHOOSE n \in 1 .. Len(d) :
                      /\ d[n].id = target
                      /\ \A j \in 1 .. (n - 1) : d[j].id # target
         IN  [d EXCEPT ![i] = IF swap = "innerHTML"
                              THEN [@ EXCEPT !.content = <<el>>]
                              ELSE el]
    ELSE d

\* A request with its inputs drawn from the bounded sets; nothing served.
PageInit ==
    /\ pc = [s \in Sessions |-> "none"]
    /\ counter = [s \in Sessions |-> NoCounter]
    /\ out = [s \in Sessions |-> <<>>]
    /\ cancel = [s \in Sessions |-> "no"]
    /\ wfail = [s \in Sessions |-> FALSE]
    /\ slept = [s \in Sessions |-> 0]
    /\ response = [s \in Sessions |-> <<>>]
    /\ req \in Requests
    /\ reply = <<>>
    /\ dom = <<>>

\* The handler is applied to the request; the client renders the reply.
Serve ==
    /\ reply = <<>>
    /\ reply' = <<Handle(req)>>
    /\ dom' = Elements(reply'[1])
    /\ UNCHANGED req
    /\ UNCHANGED sse

\* A press of the enabled button dir ("prev" or "next") of the controls of
\* element sl: the request for the button's URL, with the HX-Request header,
\* is served and the reply is swapped in at the controls' target.
Click(sl, dir) ==
    /\ reply # <<>>
    /\ "controls" \in DOMAIN dom[sl]
    /\ ~dom[sl].controls[dir].disabled
    /\ req' = [app |-> req.app,
               path |-> dom[sl].controls[dir].hx_get.path,
               page |-> dom[sl].controls[dir].hx_get.page,
               example |-> dom[sl].controls[dir].hx_get.example,
               headers |-> {<<"HX-Request", "true">>}]
    /\ reply' = <<Handle(req')>>
    /\ dom' = Swap(dom, dom[sl].controls.target_id, dom[sl].controls.hx_swap,
                   reply'[1])
    /\ UNCHANGED sse

\* The load trigger of the container at sl, which still shows its loading
\* indicator: load_url is asked for and the reply swapped in.
Load(sl) ==
    /\ reply # <<>>
    /\ "hx_get" \in DOMAIN dom[sl]
    /\ dom[sl].content = <<LoadingIndicator>>
    /\ req' = [app |-> req.app, path |-> dom[sl].hx_get, page |-> 1,
               example |-> None, headers |-> {<<"HX-Request", "true">>}]
    /\ reply' = <<Handle(req')>>
    /\ dom' = Swap(dom, dom[sl].id, dom[sl].hx_swap, reply'[1])
    /\ UNCHANGED sse

PageNext ==
    \/ Serve
    \/ \E sl \in 1 .. Len(dom), dir \in {"prev", "next"} : Click(sl, dir)
    \/ \E sl \in 1 .. Len(dom) : Load(sl)

PageSpec == PageInit /\ [][PageNext]_vars

\* Reading a reply: one container with its controls, or a full page.
IsFragment(r) == "controls" \in DOMAIN r

IsFullPage(r) == "content" \in DOMAIN r

\* The request carries the HX-Request header.
CarriesHx(r) == \E h \in r.headers : h[1] = "HX-Request"

\* A reply of one of the two pagination handlers is in hand.
PaginationServed == reply # <<>> /\ req.path = "/pagination_demo"

(***************************************************************************)
(* C21.  index returns the container of one example only for a request     *)
(* that carries the HX-Request header and names example "1", "2" or "3",   *)
(* and then the container of that example; for a request without the       *)
(* header, without the example parameter, or with any other example value, *)
(* the reply is the result of handle_htmx_request on the full demo page,   *)
(* its three containers showing the requested page.                        *)
(***************************************************************************)
C21_IndexFragmentOnlyForHtmx ==
    (PaginationServed /\ req.app = "demo") =>
        LET r == reply[1] IN
        /\ IsFragment(r) =>
            /\ CarriesHx(req)
            /\ req.example \in {"1", "2", "3"}
            /\ r.controls.next.hx_get.example = req.example
        /\ (~CarriesHx(req) \/ req.example = None
                \/ req.example \notin {"1", "2", "3"}) =>
            /\ IsFullPage(r)
            /\ Len(r.content.children) = 3
            /\ \A i \in 1 .. 3 : r.content.children[i].page = req.page

\* index has answered a request that names example 2 and carries no
\* HX-Request header with the full page.
C21_Witness ==
    /\ PaginationServed
    /\ req.app = "demo"
    /\ req.example = "2"
    /\ req.headers = {}
    /\ IsFullPage(reply[1])
    /\ reply[1].layout

(***************************************************************************)
(* C22.  For every page, example parameter and presence of the HX-Request  *)
(* header, pagination_demo and index give the same reply: the same kind    *)
(* (one example's container or the full page) with the same contents.      *)
(***************************************************************************)
C22_HandlersEquivalent ==
    PaginationServed =>
        pagination_demo(req, req.page, req.example)
            = index(req, req.page, req.example)

(***************************************************************************)
(* C23.  total_pages is 10; a displayed item list of a page p in 1..10 is  *)
(* the 10 numbers (p-1)*10+1 .. p*10 in order, and its header range        *)
(* start_idx+1 .. end_idx is the first and the last of them; over          *)
(* p = 1..10 every item of 1..100 is on exactly one page.                  *)
(***************************************************************************)
C23_ItemsOnPage ==
    [p \in 1 .. 10 |-> {current_items(p)[j] : j \in DOMAIN current_items(p)}]

C23_PagesPartitionItems ==
    /\ total_pages = 10
    /\ \A i \in 1 .. Len(dom) :
        ("showing" \in DOMAIN dom[i] /\ dom[i].page \in 1 .. 10) =>
            LET p == dom[i].page IN
            /\ dom[i].items = [n \in 1 .. 10 |-> (p - 1) * 10 + n]
            /\ dom[i].showing = <<(p - 1) * 10 + 1, p * 10>>
            /\ dom[i].showing = <<start_idx(p) + 1, end_idx(p)>>
    /\ \A n \in 1 .. 100 :
        Cardinality({p \in 1 .. 10 : n \in C23_ItemsOnPage[p]}) = 1

\* Page 7 of the item list is displayed after a press of a button: items
\* 61 to 70.
C23_Witness ==
    /\ PaginationServed
    /\ CarriesHx(req)
    /\ \E i \in 1 .. Len(dom) :
        /\ "showing" \in DOMAIN dom[i]
        /\ dom[i].page = 7
        /\ dom[i].items[1] = 61
        /\ dom[i].items[10] = 70
        /\ reply[1] = dom[i]

(***************************************************************************)
(* C24.  For every integer page, pages <= 0 and pages > total_pages        *)
(* included, every item number displayed lies in 1..100 and the header     *)
(* range satisfies 1 <= start_idx+1 <= end_idx <= 100.                     *)
(***************************************************************************)
C24_DisplayedItemsInRange ==
    \A i \in 1 .. Len(dom) :
        "showing" \in DOMAIN dom[i] =>
            /\ \A j \in 1 .. Len(dom[i].items) : dom[i].items[j] \in 1 .. 100
            /\ 1 <= dom[i].showing[1]
            /\ dom[i].showing[1] <= dom[i].showing[2]
            /\ dom[i].showing[2] <= 100

(***************************************************************************)
(* C25.  Every container of an example k in the document has the id        *)
(* pagination-content-k, its controls aim at that id and their URLs name   *)
(* example k; a press of a button of one container puts the asked page in  *)
(* that container and leaves every container under its id and every other  *)
(* container as it was.                                                    *)
(***************************************************************************)
C25_RootId(k) ==
    CASE k = "1" -> "pagination-content-1"
      [] k = "2" -> "pagination-content-2"
      [] k = "3" -> "pagination-content-3"

====
